---- MODULE Spec2Model ----
(***************************************************************************)
(* Model of src/postgres/seed_synthetic_data.py: the synthetic data         *)
(* generation pipeline of SyntheticDataGenerator.generate_all, run against  *)
(* a transactional database.                                                *)
(*                                                                          *)
(* The database is modelled by two records of the same shape: db is the     *)
(* durably committed state, txn is what the open session sees (committed    *)
(* state plus the uncommitted work of the current transaction).  commit     *)
(* copies txn to db, rollback copies db to txn, closing the connection      *)
(* discards the uncommitted work.  Tables are sequences of rows (an insert  *)
(* appends), indexes a set of index names.  Every connect, statement and   *)
(* commit may fail; rollback and close succeed.                             *)
(* The destination schema is external to the repository: a batch that a     *)
(* schema constraint would reject is covered by the failing outcome of the  *)
(* write, a schema without the constraint by the succeeding outcome.        *)
(*                                                                          *)
(* Money is counted in cents and the sampled values are taken from a grid   *)
(* on which every division of the record computation is exact.              *)
(***************************************************************************)
EXTENDS Integers, Sequences, FiniteSets, TLC

\* ------------------------------------------------------------------ bounds
MaxStores == 1
MaxProducts == 4
MaxCustomers == 1
MaxSales == 5
MaxDays == 2
MaxRuns == 2
\* batch_size of generate_fact_sales (10000 in the source), scaled down
BatchSize == 2

\* ------------------------------------------------------- domain constants
\* None of the code, NULL of the database; every key is at least 1
NULL == 0

REGIONS == <<"North", "South", "East", "West", "Central">>

CATEGORY_NAMES == <<"Textile", "Accessories", "Seasonal">>

PRODUCT_CATEGORIES ==
    [Textile |-> <<"T-Shirt", "Dress", "Pants", "Jacket", "Sweater">>,
     Accessories |-> <<"Hat", "Scarf", "Bag", "Shoes", "Gloves">>,
     Seasonal |-> <<"Swimwear", "Thermal", "Snow Boots", "Sunglasses", "Winter Coat">>]

INDEXES == <<"idx_fact_sales_date_2", "idx_fact_sales_store_2",
             "idx_fact_sales_product_2", "idx_fact_sales_customer_2",
             "idx_fact_sales_store_product_date_2">>

DAY_NAMES == <<"Monday", "Tuesday", "Wednesday", "Thursday", "Friday",
               "Saturday", "Sunday">>

\* the days datetime.now() is drawn from: Friday 2024-12-27 .. Thursday
\* 2025-01-02, as proleptic Gregorian ordinals (day 1 is 0001-01-01)
Clock == 739247..739253

\* The values of the np.random draws of one sales record that a
\* specification explores: a draw ranges over the values of its range in the
\* code that are in the explored set.  OneSample follows one value of every
\* draw, KeySamples every key, AmountSamples every financial value.
DISCOUNT_PCTS == {0, 5, 10, 15, 20}
OneSample ==
    [store_id |-> {1}, product_id |-> {1}, customer_id |-> {1},
     anonymous |-> {FALSE},
     quantity |-> {2}, unit_price |-> {10000}, cost_markup |-> {<<2, 1>>},
     discount_pct |-> {10}, is_return |-> {FALSE}]
KeySamples ==
    [OneSample EXCEPT !.store_id = 1..MaxStores, !.product_id = 1..MaxProducts,
                      !.customer_id = 1..MaxCustomers,
                      !.anonymous = {TRUE, FALSE}]
AmountSamples ==
    [OneSample EXCEPT !.quantity = {2, 9}, !.cost_markup = {<<5, 2>>},
                      !.discount_pct = DISCOUNT_PCTS,
                      !.is_return = {TRUE, FALSE}]

\* the methods of the generator that call the database
METHODS == {"connect", "clear_tables", "generate_dim_date", "generate_dim_store",
            "generate_dim_product", "generate_dim_customer",
            "generate_fact_sales", "create_indexes"}

\* ------------------------------------------------------------ calendar
\* datetime.weekday(): Monday is 0, Sunday is 6
weekday(ord) == (ord - 1) % 7

\* the year, month, day of a proleptic Gregorian ordinal, as datetime
\* computes them
DAYS_BEFORE_MONTH(leap) ==
    IF leap THEN <<0, 31, 60, 91, 121, 152, 182, 213, 244, 274, 305, 335, 366>>
            ELSE <<0, 31, 59, 90, 120, 151, 181, 212, 243, 273, 304, 334, 365>>

ymd(ord) ==
    LET n0 == ord - 1
        n400 == n0 \div 146097
        r400 == n0 % 146097
        n100 == r400 \div 36524
        r100 == r400 % 36524
        n4 == r100 \div 1461
        r4 == r100 % 1461
        n1 == r4 \div 365
        r1 == r4 % 365
        y == n400 * 400 + n100 * 100 + n4 * 4 + n1 + 1
        leap == n1 = 3 /\ (n4 # 24 \/ n100 = 3)
        dbm == DAYS_BEFORE_MONTH(leap)
        m == CHOOSE k \in 1..12 : dbm[k] <= r1 /\ r1 < dbm[k + 1]
    IN  IF n1 = 4 \/ n100 = 4
        THEN [year |-> y - 1, month |-> 12, day |-> 31]
        ELSE [year |-> y, month |-> m, day |-> r1 - dbm[m] + 1]

\* int(current_date.strftime("%Y%m%d"))
date_id(ord) ==
    LET d == ymd(ord) IN d.year * 10000 + d.month * 100 + d.day

is_weekend(ord) == IF weekday(ord) >= 4 THEN 1 ELSE 0

\* one row of dim_date (week_of_year and month_name are left out)
date_row(ord) ==
    LET d == ymd(ord)
    IN  [date_id |-> date_id(ord),
         date_value |-> ord,
         day_of_week |-> weekday(ord) + 1,
         day_name |-> DAY_NAMES[weekday(ord) + 1],
         month |-> d.month,
         quarter |-> ((d.month - 1) \div 3) + 1,
         fiscal_quarter |-> ((d.month - 1) \div 3) + 1,
         year |-> d.year,
         fiscal_year |-> d.year,
         is_weekend |-> is_weekend(ord),
         is_holiday |-> FALSE,
         holiday_name |-> NULL]

\* the dates list of generate_dim_date: one row per day of [today - days, today]
dates(today, days) == [i \in 1..(days + 1) |-> date_row(today - days + i - 1)]

\* ------------------------------------------------------------ dimensions
\* the randomly drawn attributes of the dimension rows (coordinates, store
\* type, colours, prices, loyalty flag, ...) are left out: no key depends
\* on them
store_row(store_id) ==
    [store_id |-> store_id,
     region |-> REGIONS[((store_id - 1) % Len(REGIONS)) + 1],
     country |-> "USA",
     closing_date |-> NULL,
     status |-> "Active"]

stores(num_stores) == [i \in 1..num_stores |-> store_row(i)]

products_per_category(num_products) == num_products \div Len(CATEGORY_NAMES)

\* the products list of generate_dim_product: product_id counts on across
\* the categories
products(num_products) ==
    LET ppc == products_per_category(num_products)
    IN  [p \in 1..(Len(CATEGORY_NAMES) * ppc) |->
            LET c == CATEGORY_NAMES[((p - 1) \div ppc) + 1]
                i == (p - 1) % ppc
                subs == PRODUCT_CATEGORIES[c]
            IN  [product_id |-> p,
                 category |-> c,
                 subcategory |-> subs[(i % Len(subs)) + 1],
                 status |-> "Active",
                 is_current |-> TRUE]]

customer_row(customer_id) ==
    [customer_id |-> customer_id,
     last_purchase_date |-> NULL,
     lifetime_purchases |-> 0,
     lifetime_spend |-> 0,
     country |-> "USA",
     status |-> "Active"]

customers(num_customers) == [i \in 1..num_customers |-> customer_row(i)]

\* ------------------------------------------------------------ sales record
abs(x) == IF x < 0 THEN -x ELSE x

discount_amount_not_divided(total_amount, discount_pct) ==
    IF discount_pct > 0 THEN total_amount * discount_pct ELSE 0

discount_amount(total_amount, discount_pct) ==
    IF discount_pct > 0 THEN (total_amount * discount_pct) \div 100 ELSE 0

return_adjust_keeps_cost(r) ==
    LET net == -abs(r.net_amount)
    IN  [r EXCEPT !.net_amount = net, !.margin_amount = net - r.cost_amount]

\* the return branch: net and cost are negated, the margin recomputed
return_adjust(r) ==
    LET net == -abs(r.net_amount)
        cost == -abs(r.cost_amount)
    IN  [r EXCEPT !.net_amount = net, !.cost_amount = cost,
                  !.margin_amount = net - cost]

\* one tuple of sales_records, from the values d drawn for it (the payment
\* method is left out); d.cost_markup is the fraction cost_markup[1] /
\* cost_markup[2]
sale_record(sale_id, sale_date, d) ==
    LET unit_cost == (d.unit_price * d.cost_markup[2]) \div d.cost_markup[1]
        cost_amount == unit_cost * d.quantity
        total_amount == d.unit_price * d.quantity
        disc == discount_amount(total_amount, d.discount_pct)
        net_amount == total_amount - disc
        r == [sale_id |-> sale_id,
              store_id |-> d.store_id,
              product_id |-> d.product_id,
              customer_id |-> d.customer_id,
              sale_date |-> sale_date,
              quantity |-> d.quantity,
              unit_price |-> d.unit_price,
              total_amount |-> total_amount,
              discount_pct |-> d.discount_pct,
              discount_amount |-> disc,
              net_amount |-> net_amount,
              cost_amount |-> cost_amount,
              margin_amount |-> net_amount - cost_amount,
              is_return |-> d.is_return]
    IN  IF d.is_return THEN return_adjust(r) ELSE r

\* ------------------------------------------------------------------ state
VARIABLES
    cfg,            \* NUM_STORES, NUM_PRODUCTS, NUM_CUSTOMERS, NUM_SALES, DATE_RANGE_DAYS
    now,            \* the day datetime.now() falls on
    sample,         \* the values the np.random draws of a sales record range over
    faulty,         \* the methods whose database calls are followed into failure
    run,            \* how many times main() has been started
    pc,             \* the position of generate_all
    conn,           \* self.conn: "none", "open" or "closed"
    cursor,         \* self.cursor: "none", "open" or "closed"
    db,             \* the committed database state
    txn,            \* the database state the session sees
    exc,            \* the method whose exception is propagating, or "none"
    result,         \* how generate_all ended: "none", "returned" or "raised"
    sale_id,        \* locals of generate_fact_sales
    batch_num,
    rec_i,
    sales_records,
    index_i,        \* the position of the loop of create_indexes
    calls,          \* history: the methods generate_all has called in this run
    writes,         \* history: the batches generate_fact_sales tried to insert
    attempted       \* history: the index creations tried, with their outcome

vars == <<cfg, now, sample, faulty, run, pc, conn, cursor, db, txn, exc, result, sale_id,
          batch_num, rec_i, sales_records, index_i, calls, writes,
          attempted>>

env == <<cfg, now, sample, faulty>>
fact_locals == <<sale_id, batch_num, rec_i, sales_records, writes>>
index_locals == <<index_i, attempted>>

EmptyDb ==
    [dim_date |-> <<>>, dim_store |-> <<>>, dim_product |-> <<>>,
     dim_customer |-> <<>>, fact_sales |-> <<>>, indexes |-> {}]

\* SyntheticDataGenerator.__init__ and the locals before their first use
Fresh ==
    /\ conn = "none"
    /\ cursor = "none"
    /\ exc = "none"
    /\ result = "none"
    /\ sale_id = 1
    /\ batch_num = 0
    /\ rec_i = 0
    /\ sales_records = <<>>
    /\ index_i = 1
    /\ calls = <<>>
    /\ writes = <<>>
    /\ attempted = <<>>

InitState ==
    /\ run = 0
    /\ pc = "idle"
    /\ db = EmptyDb
    /\ txn = EmptyDb
    /\ Fresh

\* the pipeline over the configurations with every database call able to
\* fail, following one value of each draw
Init ==
    /\ cfg \in [NUM_STORES : 1..MaxStores, NUM_PRODUCTS : 1..MaxProducts,
                NUM_CUSTOMERS : 1..MaxCustomers, NUM_SALES : 0..MaxSales,
                DATE_RANGE_DAYS : {0}]
    /\ now = 739250
    /\ sample = OneSample
    /\ faulty = METHODS
    /\ InitState

\* the keys of the sales records over the configurations, in runs whose
\* database calls succeed
InitKeys ==
    /\ cfg \in [NUM_STORES : 1..MaxStores, NUM_PRODUCTS : 1..MaxProducts,
                NUM_CUSTOMERS : 1..MaxCustomers, NUM_SALES : {0, BatchSize},
                DATE_RANGE_DAYS : {0}]
    /\ now = 739250
    /\ sample = KeySamples
    /\ faulty = {}
    /\ InitState

\* the amounts of the sales records over the financial draws, in one
\* configuration
InitAmounts ==
    /\ cfg = [NUM_STORES |-> 1, NUM_PRODUCTS |-> 3, NUM_CUSTOMERS |-> 1,
              NUM_SALES |-> BatchSize, DATE_RANGE_DAYS |-> 0]
    /\ now = 739250
    /\ sample = AmountSamples
    /\ faulty = {"generate_fact_sales"}
    /\ InitState

\* the date dimension over the days of a week and the window lengths
InitDates ==
    /\ cfg \in [NUM_STORES : {1}, NUM_PRODUCTS : {3}, NUM_CUSTOMERS : {1},
                NUM_SALES : {0, BatchSize}, DATE_RANGE_DAYS : 0..MaxDays]
    /\ now \in Clock
    /\ sample = OneSample
    /\ faulty = {"generate_dim_date"}
    /\ InitState

\* ------------------------------------------------------------ generate_all
RaiseSkipsFinally(m) ==
    /\ m \in faulty
    /\ pc' = "done"
    /\ exc' = m

\* an exception raised by method m in the try block of generate_all: the
\* except clause logs and re-raises, the finally clause is next
Raise(m) ==
    /\ m \in faulty
    /\ pc' = "finally"
    /\ exc' = m

\* main(): a new process builds a generator and calls generate_all; the
\* database is what the previous run left
Main ==
    /\ pc \in {"idle", "done"}
    /\ run < MaxRuns
    /\ run' = run + 1
    /\ pc' = "connect"
    /\ conn' = "none"
    /\ cursor' = "none"
    /\ exc' = "none"
    /\ result' = "none"
    /\ sale_id' = 1
    /\ batch_num' = 0
    /\ rec_i' = 0
    /\ sales_records' = <<>>
    /\ index_i' = 1
    /\ calls' = <<>>
    /\ writes' = <<>>
    /\ attempted' = <<>>
    /\ UNCHANGED <<env, db, txn>>

\* connect(): psycopg2.connect or conn.cursor() may fail
Connect ==
    /\ pc = "connect"
    /\ calls' = Append(calls, "connect")
    /\ \/ /\ conn' = "open"
          /\ cursor' = "open"
          /\ txn' = db
          /\ pc' = "clear_tables"
          /\ exc' = exc
       \/ /\ UNCHANGED <<conn, cursor, txn>>
          /\ Raise("connect")
       \/ /\ conn' = "open"
          /\ txn' = db
          /\ UNCHANGED cursor
          /\ Raise("connect")
    /\ UNCHANGED <<env, run, db, result, fact_locals, index_locals>>

truncated_keeps_facts(t) ==
    [t EXCEPT !.dim_customer = <<>>, !.dim_store = <<>>,
              !.dim_product = <<>>, !.dim_date = <<>>]

\* the tables after the TRUNCATE ... CASCADE statements of clear_tables
truncated(t) ==
    [t EXCEPT !.fact_sales = <<>>, !.dim_customer = <<>>, !.dim_store = <<>>,
              !.dim_product = <<>>, !.dim_date = <<>>]

\* clear_tables(): all truncates and one commit, or rollback and re-raise
ClearTables ==
    /\ pc = "clear_tables"
    /\ calls' = Append(calls, "clear_tables")
    /\ \/ /\ txn' = truncated(txn)
          /\ db' = txn'
          /\ pc' = "generate_dim_date"
          /\ exc' = exc
       \/ /\ txn' = db
          /\ db' = db
          /\ Raise("clear_tables")
    /\ UNCHANGED <<env, run, conn, cursor, result, fact_locals, index_locals>>

WriteStageAutocommit(m, table, rows, next) ==
    \/ /\ txn' = [txn EXCEPT ![table] = @ \o rows]
       /\ db' = txn'
       /\ pc' = next
       /\ exc' = exc
    \/ /\ txn' = txn
       /\ db' = db
       /\ Raise(m)
    \/ /\ txn' = [txn EXCEPT ![table] = @ \o rows]
       /\ db' = txn'
       /\ Raise(m)

\* a dimension stage m: executemany of rows into table, then commit; no
\* handler of its own, so a failure of either propagates to generate_all
WriteStage(m, table, rows, next) ==
    \/ /\ txn' = [txn EXCEPT ![table] = @ \o rows]
       /\ db' = txn'
       /\ pc' = next
       /\ exc' = exc
    \/ /\ txn' = txn
       /\ db' = db
       /\ Raise(m)
    \/ /\ txn' = [txn EXCEPT ![table] = @ \o rows]
       /\ db' = db
       /\ Raise(m)

GenerateDimDate ==
    /\ pc = "generate_dim_date"
    /\ calls' = Append(calls, "generate_dim_date")
    /\ WriteStage("generate_dim_date", "dim_date",
                  dates(now, cfg.DATE_RANGE_DAYS), "generate_dim_store")
    /\ UNCHANGED <<env, run, conn, cursor, result, fact_locals, index_locals>>

GenerateDimStore ==
    /\ pc = "generate_dim_store"
    /\ calls' = Append(calls, "generate_dim_store")
    /\ WriteStage("generate_dim_store", "dim_store",
                  stores(cfg.NUM_STORES), "generate_dim_product")
    /\ UNCHANGED <<env, run, conn, cursor, result, fact_locals, index_locals>>

GenerateDimProduct ==
    /\ pc = "generate_dim_product"
    /\ calls' = Append(calls, "generate_dim_product")
    /\ WriteStage("generate_dim_product", "dim_product",
                  products(cfg.NUM_PRODUCTS), "generate_dim_customer")
    /\ UNCHANGED <<env, run, conn, cursor, result, fact_locals, index_locals>>

GenerateDimCustomer ==
    /\ pc = "generate_dim_customer"
    /\ calls' = Append(calls, "generate_dim_customer")
    /\ WriteStage("generate_dim_customer", "dim_customer",
                  customers(cfg.NUM_CUSTOMERS), "generate_fact_sales")
    /\ UNCHANGED <<env, run, conn, cursor, result, fact_locals, index_locals>>

\* ------------------------------------------------------ generate_fact_sales
num_batches(num_sales) == num_sales \div BatchSize

after_batch_keeps(records) == records

\* sales_records after a batch has been inserted and committed
after_batch(records) == <<>>

\* entry of generate_fact_sales: the locals before the batch loop
GenerateFactSales ==
    /\ pc = "generate_fact_sales"
    /\ calls' = Append(calls, "generate_fact_sales")
    /\ sale_id' = 1
    /\ batch_num' = 0
    /\ rec_i' = 0
    /\ sales_records' = <<>>
    /\ pc' = "batch_loop"
    /\ UNCHANGED <<env, run, conn, cursor, db, txn, exc, result, writes,
                   index_locals>>

\* one pass of the inner loop: draw the values of a record and append it
SaleRecord ==
    /\ pc = "batch_loop"
    /\ batch_num < num_batches(cfg.NUM_SALES)
    /\ rec_i < BatchSize
    /\ \E day \in 0..cfg.DATE_RANGE_DAYS,
          store_id \in (1..cfg.NUM_STORES) \cap sample.store_id,
          product_id \in (1..cfg.NUM_PRODUCTS) \cap sample.product_id,
          anonymous \in sample.anonymous,
          quantity \in sample.quantity,
          unit_price \in sample.unit_price,
          cost_markup \in sample.cost_markup,
          discount_pct \in sample.discount_pct,
          is_return \in sample.is_return :
            \E customer_id \in (IF anonymous THEN {NULL}
                                ELSE (1..cfg.NUM_CUSTOMERS) \cap sample.customer_id) :
                sales_records' =
                    Append(sales_records,
                           sale_record(sale_id, now - cfg.DATE_RANGE_DAYS + day,
                                       [store_id |-> store_id,
                                        product_id |-> product_id,
                                        customer_id |-> customer_id,
                                        quantity |-> quantity,
                                        unit_price |-> unit_price,
                                        cost_markup |-> cost_markup,
                                        discount_pct |-> discount_pct,
                                        is_return |-> is_return]))
    /\ sale_id' = sale_id + 1
    /\ rec_i' = rec_i + 1
    /\ UNCHANGED <<env, run, pc, conn, cursor, db, txn, exc, result, batch_num,
                   writes, calls, index_locals>>

\* the end of a pass of the outer loop: executemany of the batch, commit,
\* and the list emptied; a failure of either call propagates
InsertBatch ==
    /\ pc = "batch_loop"
    /\ batch_num < num_batches(cfg.NUM_SALES)
    /\ rec_i = BatchSize
    /\ writes' = Append(writes, batch_num + 1)
    /\ \/ /\ txn' = [txn EXCEPT !.fact_sales = @ \o sales_records]
          /\ db' = txn'
          /\ batch_num' = batch_num + 1
          /\ sales_records' = after_batch(sales_records)
          /\ rec_i' = 0
          /\ UNCHANGED <<pc, exc>>
       \/ /\ txn' = txn
          /\ db' = db
          /\ Raise("generate_fact_sales")
          /\ UNCHANGED <<batch_num, sales_records, rec_i>>
       \/ /\ txn' = [txn EXCEPT !.fact_sales = @ \o sales_records]
          /\ db' = db
          /\ Raise("generate_fact_sales")
          /\ UNCHANGED <<batch_num, sales_records, rec_i>>
    /\ UNCHANGED <<env, run, conn, cursor, result, sale_id, calls, index_locals>>

\* the outer loop has run NUM_SALES // batch_size times: the method returns
FactSalesReturn ==
    /\ pc = "batch_loop"
    /\ batch_num = num_batches(cfg.NUM_SALES)
    /\ pc' = "create_indexes"
    /\ UNCHANGED <<env, run, conn, cursor, db, txn, exc, result, fact_locals,
                   calls, index_locals>>

\* ----------------------------------------------------------- create_indexes
IndexFailureRaises(ix) ==
    /\ txn' = db
    /\ db' = db
    /\ index_i' = index_i
    /\ attempted' = Append(attempted, [index |-> ix, created |-> FALSE])
    /\ Raise("create_indexes")

\* the except clause of the loop of create_indexes: roll back and go on
\* with the next index
IndexFailure(ix) ==
    /\ txn' = db
    /\ db' = db
    /\ index_i' = index_i + 1
    /\ attempted' = Append(attempted, [index |-> ix, created |-> FALSE])
    /\ UNCHANGED <<pc, exc>>

\* one pass of the loop: CREATE INDEX and commit.  An index that exists
\* makes the statement fail; any statement or commit may fail otherwise
CreateIndex ==
    /\ pc = "create_indexes"
    /\ index_i <= Len(INDEXES)
    /\ calls' = IF index_i = 1 THEN Append(calls, "create_indexes") ELSE calls
    /\ LET ix == INDEXES[index_i]
       IN  \/ /\ ix \notin txn.indexes
              /\ txn' = [txn EXCEPT !.indexes = @ \cup {ix}]
              /\ db' = txn'
              /\ index_i' = index_i + 1
              /\ attempted' = Append(attempted, [index |-> ix, created |-> TRUE])
              /\ UNCHANGED <<pc, exc>>
           \/ /\ ix \in txn.indexes \/ "create_indexes" \in faulty
              /\ IndexFailure(ix)
    /\ UNCHANGED <<env, run, conn, cursor, result, fact_locals>>

\* the loop is over: create_indexes returns and the try block completes
CreateIndexesReturn ==
    /\ pc = "create_indexes"
    /\ index_i = Len(INDEXES) + 1
    /\ pc' = "finally"
    /\ UNCHANGED <<env, run, conn, cursor, db, txn, exc, result, fact_locals,
                   calls, index_locals>>

\* --------------------------------------------------------------- disconnect
\* the committed state once the connection is closed: the uncommitted work
\* of the session is discarded
close_connection(committed, session) == committed

\* the finally clause: disconnect() closes the cursor and the connection
\* that exist, then generate_all returns or the exception leaves it
Disconnect ==
    /\ pc = "finally"
    /\ calls' = Append(calls, "disconnect")
    /\ cursor' = IF cursor = "open" THEN "closed" ELSE cursor
    /\ conn' = IF conn = "open" THEN "closed" ELSE conn
    /\ db' = close_connection(db, txn)
    /\ txn' = db'
    /\ result' = IF exc = "none" THEN "returned" ELSE "raised"
    /\ pc' = "done"
    /\ UNCHANGED <<env, run, exc, fact_locals, index_locals>>

Next ==
    \/ Main
    \/ Connect
    \/ ClearTables
    \/ GenerateDimDate
    \/ GenerateDimStore
    \/ GenerateDimProduct
    \/ GenerateDimCustomer
    \/ GenerateFactSales
    \/ SaleRecord
    \/ InsertBatch
    \/ FactSalesReturn
    \/ CreateIndex
    \/ CreateIndexesReturn
    \/ Disconnect

Spec == Init /\ [][Next]_vars
SpecKeys == InitKeys /\ [][Next]_vars
SpecAmounts == InitAmounts /\ [][Next]_vars
SpecDates == InitDates /\ [][Next]_vars

\* ------------------------------------------------------------ properties
Range(seq) == {seq[i] : i \in 1..Len(seq)}
Column(table, field) == {table[i][field] : i \in 1..Len(table)}
Completed == pc = "done" /\ result = "returned"
Ended == pc \in {"finally", "done"}

\* C1: after a complete run every committed fact row has a store_id, a
\* product_id and a customer_id (unless null) that is the key of a row of
\* its dimension table
ForeignKeysResolve ==
    Completed =>
        \A r \in Range(db.fact_sales) :
            /\ r.store_id \in Column(db.dim_store, "store_id")
            /\ r.product_id \in Column(db.dim_product, "product_id")
            /\ r.customer_id = NULL
                  \/ r.customer_id \in Column(db.dim_customer, "customer_id")

\* C2: a run that does not fail commits exactly NUM_SALES fact records
CommitsNumSalesRecords ==
    Completed => Len(db.fact_sales) = cfg.NUM_SALES

\* C3 as stated: total = unit_price * quantity, discount = total * pct / 100
\* and net = total - discount for every inserted record, returns included
AmountIdentities ==
    \A r \in Range(db.fact_sales) :
        /\ r.total_amount = r.unit_price * r.quantity
        /\ r.discount_amount * 100 = r.total_amount * r.discount_pct
        /\ r.net_amount = r.total_amount - r.discount_amount

\* C3 as amended: total = unit_price * quantity and discount = total * pct /
\* 100 for every inserted record; net = total - discount for a record that
\* is no return and net = -(total - discount) for a return; unit_price 100,
\* quantity 2, discount 10% give total 200, discount 20 and, for a sale that
\* is no return, net 180
AmountIdentitiesSigned ==
    \A r \in Range(db.fact_sales) :
        /\ r.total_amount = r.unit_price * r.quantity
        /\ r.discount_amount * 100 = r.total_amount * r.discount_pct
        /\ r.net_amount = IF r.is_return
                          THEN -(r.total_amount - r.discount_amount)
                          ELSE r.total_amount - r.discount_amount
        /\ (r.unit_price = 10000 /\ r.quantity = 2 /\ r.discount_pct = 10)
              => /\ r.total_amount = 20000
                 /\ r.discount_amount = 2000
                 /\ ~r.is_return => r.net_amount = 18000

ReturnWithDiscountInserted ==
    \E r \in Range(db.fact_sales) :
        r.is_return /\ r.unit_price = 10000 /\ r.quantity = 2 /\ r.discount_pct = 10

\* C4: an inserted return has net_amount <= 0, cost_amount <= 0 and
\* margin_amount = net_amount - cost_amount of the stored values; any other
\* inserted record has net_amount >= 0, cost_amount > 0 and margin_amount =
\* net_amount - cost_amount
ReturnSigns ==
    \A r \in Range(db.fact_sales) :
        /\ r.margin_amount = r.net_amount - r.cost_amount
        /\ r.is_return => r.net_amount <= 0 /\ r.cost_amount <= 0
        /\ ~r.is_return => r.net_amount >= 0 /\ r.cost_amount > 0

ReturnAndSaleInserted ==
    \E r, q \in Range(db.fact_sales) :
        r.is_return /\ r.net_amount < 0 /\ ~q.is_return /\ q.discount_pct = 20

\* the dimension stages in the order generate_all calls them
DIM_STAGES == <<"generate_dim_date", "generate_dim_store",
                "generate_dim_product", "generate_dim_customer">>
DIM_TABLES == <<"dim_date", "dim_store", "dim_product", "dim_customer">>
dim_rows(k) ==
    CASE k = 1 -> dates(now, cfg.DATE_RANGE_DAYS)
      [] k = 2 -> stores(cfg.NUM_STORES)
      [] k = 3 -> products(cfg.NUM_PRODUCTS)
      [] k = 4 -> customers(cfg.NUM_CUSTOMERS)
PIPELINE == <<"connect", "clear_tables", "generate_dim_date",
              "generate_dim_store", "generate_dim_product",
              "generate_dim_customer", "generate_fact_sales", "create_indexes">>

\* C5: once a dimension stage has failed, none of its rows and no row of a
\* later stage is committed, the rows of the earlier stages are, no later
\* stage is called (only disconnect), and generate_all ends raising with
\* the uncommitted work discarded
DimensionFailureAborts ==
    \A k \in 1..Len(DIM_STAGES) :
        exc = DIM_STAGES[k] =>
            /\ Ended
            /\ \A j \in 1..Len(DIM_STAGES) :
                  db[DIM_TABLES[j]] = IF j < k THEN dim_rows(j) ELSE <<>>
            /\ db.fact_sales = <<>>
            /\ writes = <<>> /\ attempted = <<>>
            /\ calls \in {SubSeq(PIPELINE, 1, k + 2),
                          Append(SubSeq(PIPELINE, 1, k + 2), "disconnect")}
            /\ pc = "done" =>
                  /\ result = "raised"
                  /\ txn = db
                  /\ calls[Len(calls)] = "disconnect"

ProductStageFailed ==
    /\ pc = "done"
    /\ exc = "generate_dim_product"
    /\ db.dim_store # <<>>
    /\ result = "raised"

\* C6: the committed fact rows are at every point a whole number of batches
\* that is a prefix of the sale_id sequence, every batch is written at most
\* once and in order, and once the write or commit of batch k has failed the
\* table holds exactly the (k-1) * batch_size rows of the batches before it
CommittedBatchesArePrefix ==
    /\ Len(db.fact_sales) % BatchSize = 0
    /\ \A i \in 1..Len(db.fact_sales) : db.fact_sales[i].sale_id = i
    /\ \A i \in 1..Len(writes) : writes[i] = i
    /\ pc = "batch_loop" => Len(db.fact_sales) = batch_num * BatchSize
    /\ exc = "generate_fact_sales" =>
          /\ Ended
          /\ Len(writes) = batch_num + 1
          /\ Len(db.fact_sales) = batch_num * BatchSize
          /\ pc = "done" => txn = db /\ result = "raised"

SecondBatchFailed ==
    /\ pc = "done"
    /\ exc = "generate_fact_sales"
    /\ batch_num = 1
    /\ Len(db.fact_sales) = BatchSize

\* C7: a stage runs only with the connection and cursor open and after
\* connect; when generate_all has ended, however it ended, disconnect was
\* its last call and neither connection nor cursor is open; a failed connect
\* is followed by disconnect alone
ConnectionReleased ==
    /\ pc \notin {"idle", "connect", "finally", "done"} =>
          conn = "open" /\ cursor = "open" /\ exc = "none"
    /\ \A i \in 1..Len(calls) :
          calls[i] \notin {"connect", "disconnect"} =>
              i > 1 /\ calls[1] = "connect"
    /\ exc = "connect" =>
          calls \in {<<"connect">>, <<"connect", "disconnect">>}
    /\ pc = "done" =>
          /\ conn # "open"
          /\ cursor # "open"
          /\ calls[Len(calls)] = "disconnect"
          /\ result = IF exc = "none" THEN "returned" ELSE "raised"

ReleasedAfterCursorFailure ==
    /\ pc = "done"
    /\ exc = "connect"
    /\ conn = "closed"
    /\ cursor = "none"

single_run_counts ==
    [dim_date |-> cfg.DATE_RANGE_DAYS + 1,
     dim_store |-> cfg.NUM_STORES,
     dim_product |-> cfg.NUM_PRODUCTS - (cfg.NUM_PRODUCTS % 3),
     dim_customer |-> cfg.NUM_CUSTOMERS,
     fact_sales |-> cfg.NUM_SALES - (cfg.NUM_SALES % BatchSize)]

\* C9: whatever the earlier runs left in the tables and indexes, every run
\* that completes leaves in each of the five tables the record count of a
\* single run on an empty schema
RerunKeepsCounts ==
    Completed =>
        \A t \in DOMAIN single_run_counts : Len(db[t]) = single_run_counts[t]

RerunOverExistingIndexes ==
    /\ Completed
    /\ run = 2
    /\ Len(db.fact_sales) = 2 * BatchSize
    /\ \A i \in 1..Len(attempted) : ~attempted[i].created

\* C10: is_weekend is 1 exactly for the Saturdays and Sundays
WeekendIsSaturdayOrSunday ==
    \A r \in Range(db.dim_date) :
        r.is_weekend = 1 <=> r.day_name \in {"Saturday", "Sunday"}

====
